---- MODULE Spec2Model ----
(***************************************************************************)
(* A model of the order-lifecycle stock reconciliation of coconut-server   *)
(* (src/index.js, the BeautyCareDB revision, lines 1-786): the products    *)
(* and orders collections and the request handlers that read and write     *)
(* them.  A product document holds its numbers: stock, price, discount     *)
(* and finalPrice.                                                         *)
(*                                                                         *)
(* Spec       every route's handler runs to completion before the next     *)
(*            request (requests one at a time), from an empty orders       *)
(*            collection.                                                  *)
(* SpecLife   the order routes alone, updates sent for orders that exist.  *)
(* SpecStatus place, confirm, cancel and return alone.                     *)
(* SpecCreate one create order request applied to drawn collections.       *)
(* SpecUpdate one update order request applied to drawn item lists.        *)
(* SpecListed one update order request, its item lists free to name a      *)
(*            product more than once.                                      *)
(* SpecRound  one order placed, updated and canceled, from known stock.    *)
(* SpecCancel two cancel requests run concurrently, step by step.          *)
(* SpecProducts one product request, its payload drawn field by field.    *)
(* SpecIds    every route that takes an identifier, the identifier         *)
(*            well-formed or malformed.                                    *)
(* SpecConc   create order requests run concurrently: every awaited        *)
(*            database operation is one step, steps interleave freely.     *)
(* SpecServe  one request of any route, step by step, any awaited          *)
(*            operation resolving or rejecting; steps are taken fairly.    *)
(***************************************************************************)
EXTENDS Integers, Sequences, FiniteSets, TLC

\* ------------------------------------------------------------- bounds
\* Spec: stock a product starts with, quantity of a cart item, items of a
\* cart, orders ever inserted, requests handled.
MaxStock == 2
MaxQty == 2
MaxCart == 1
MaxOrders == 2
MaxRequests == 3
\* SpecCreate: items of a cart.
MaxCreateCart == 2
\* SpecUpdate: quantity of an item of originalItems or cartItems.
MaxEditQty == 5
\* SpecIds: requests handled.
MaxIdRequests == 2

\* ---------------------------------------------------------- documents
\* _id values of the products collection the requests refer to.
ProductIds == {"A", "B"}
\* A field the request left out (undefined in the handler).
NoId == "none"
\* findOne answering null: no document under that _id.
NoDoc == [nodoc |-> TRUE]
OrderIds == 1..MaxOrders
\* An :id, and a productId, that is no 24-digit hexadecimal string.
BadOrderId == 0
BadProductId == "bad"
\* The :id values and the productId values a request may carry.
AnyOrderId == OrderIds \cup {BadOrderId}
Invoices == {"INV1", "INV2"}
\* _id values a product inserted by POST /products receives.
NewProductIds == {"C"}
AllProductIds == ProductIds \cup NewProductIds
AnyProductId == AllProductIds \cup {BadProductId}
\* stock values a product payload carries.
StockInputs == 0..MaxStock
\* Concurrent requests of SpecConc.
Procs == {"r1", "r2"}
Statuses == {"pending", "confirmed", "canceled", "returned"}

\* A cart item carries the product's id as productId (what create order and
\* cancel read), as _id (what update order reads of originalItems), or both.
PidItems(maxq) ==
  { [productId |-> p, _id |-> NoId, quantity |-> q] : p \in ProductIds, q \in 1..maxq }
OidItems(maxq) ==
  { [productId |-> NoId, _id |-> p, quantity |-> q] : p \in ProductIds, q \in 1..maxq }
BothItems(maxq) ==
  { [productId |-> p, _id |-> p, quantity |-> q] : p \in ProductIds, q \in 1..maxq }

SeqsUpTo(S, n) == UNION { [1..k -> S] : k \in 0..n }
\* Spec: the carts of a client whose items carry both fields.
Carts == SeqsUpTo(BothItems(MaxQty), MaxCart)
\* SpecCreate: longer carts; create order reads productId alone.
CreateCarts == SeqsUpTo(PidItems(MaxQty) \cup OidItems(MaxQty), MaxCreateCart)
\* SpecConc: the carts of the concurrent create order requests.
ConcCarts == SeqsUpTo(PidItems(MaxQty), MaxCart)
\* SpecIds: the carts of create order may name a product by a malformed id.
IdItems ==
  { [productId |-> p, _id |-> p, quantity |-> q] :
      p \in ProductIds \cup {BadProductId}, q \in 1..MaxQty }
IdCarts == SeqsUpTo(IdItems, MaxCart)
\* SpecUpdate: item lists naming each product at most once.
EditItems == PidItems(MaxEditQty) \cup OidItems(MaxEditQty) \cup BothItems(MaxEditQty)
EditLists ==
  { l \in SeqsUpTo(EditItems, Cardinality(ProductIds)) :
      \A i, j \in 1..Len(l) :
        i # j => {l[i].productId, l[i]._id} \cap {l[j].productId, l[j]._id} \subseteq {NoId} }

VARIABLES
  products,   \* products collection: _id -> document or NoDoc
  orders,     \* orders collection: _id -> document or NoDoc
  nextOrder,  \* number of orders inserted so far (insertedId is fresh)
  last,       \* the last request and the response it received
  pre,        \* the collections as they were when the last request arrived
  nreq,       \* requests handled so far
  procs       \* SpecConc: each concurrent request's position and locals

vars == <<products, orders, nextOrder, last, pre, nreq, procs>>

\* ------------------------------------------------ collection operators
Exists(coll, id) == id \in DOMAIN coll /\ coll[id] # NoDoc

\* ObjectId.isValid(id); new ObjectId(id) throws exactly when it is false.
\* (A productId left out is valid: new ObjectId(undefined) is a fresh id.)
IsValidOrderId(id) == id # BadOrderId
IsValidProductId(id) == id # BadProductId

\* updateOne({_id}, {$inc: {stock: d}}): no document matched, nothing changes.
IncStock(prods, pid, d) ==
  IF Exists(prods, pid) THEN [prods EXCEPT ![pid].stock = @ + d] ELSE prods

\* Variant: the invoice check never finds a stored order.
InvoiceExistsNever(ords, inv) == FALSE

\* findOne({invoiceNumber})
InvoiceExists(ords, inv) ==
  \E id \in DOMAIN ords : ords[id] # NoDoc /\ ords[id].invoiceNumber = inv

\* ------------------------------------------------------- create order
\* One pass of the STOCK CHECK loop body: 200 to go on, else the status sent
\* (500 from the catch block when new ObjectId(item.productId) throws).
CheckItem(prods, item) ==
  IF ~IsValidProductId(item.productId) THEN 500
  ELSE IF ~Exists(prods, item.productId) THEN 404
  ELSE IF prods[item.productId].stock < item.quantity THEN 400
  ELSE 200

\* Variant: the stock check looks at the first cart item only.
StockCheckFirstOnly(prods, cart, i) ==
  IF cart = <<>> THEN 200 ELSE CheckItem(prods, cart[1])

RECURSIVE StockCheck(_, _, _)
StockCheck(prods, cart, i) ==
  IF i > Len(cart) THEN 200
  ELSE IF CheckItem(prods, cart[i]) # 200 THEN CheckItem(prods, cart[i])
  ELSE StockCheck(prods, cart, i + 1)

\* Variant: the decrement forgets the item's quantity.
DecItemByOne(prods, item) == IncStock(prods, item.productId, 0 - 1)

\* Variant: the decrement writes back a stock computed from the value read
\* before the requests arrived, overwriting what was written since.
DecItemStale(prods, item) ==
  IF Exists(prods, item.productId)
  THEN [prods EXCEPT ![item.productId].stock =
          pre.products[item.productId].stock - item.quantity]
  ELSE prods

\* One pass of the SAFE STOCK UPDATE loop body.
DecItem(prods, item) == IncStock(prods, item.productId, 0 - item.quantity)

RECURSIVE DecrementAll(_, _, _)
DecrementAll(prods, cart, i) ==
  IF i > Len(cart) THEN prods
  ELSE DecrementAll(DecItem(prods, cart[i]), cart, i + 1)

\* insertOne({...order, status: "pending", createdAt})
InsertOrder(ords, id, inv, cart) ==
  [ords EXCEPT ![id] = [invoiceNumber |-> inv, cartItems |-> cart, status |-> "pending"]]

\* The response sent, with the request and the collections it found.
Respond(op, code, req) ==
  /\ last' = [op |-> op, code |-> code, req |-> req]
  /\ pre' = [products |-> products, orders |-> orders]
  /\ nreq' = nreq + 1

\* POST /orders
CreateOrder(inv, cart) ==
  /\ nextOrder < MaxOrders
  /\ UNCHANGED procs
  /\ LET req == [invoiceNumber |-> inv, cartItems |-> cart]
         chk == StockCheck(products, cart, 1)
     IN IF InvoiceExists(orders, inv)
        THEN /\ Respond("createOrder", 400, req)
             /\ UNCHANGED <<products, orders, nextOrder>>
        ELSE IF chk # 200
        THEN /\ Respond("createOrder", chk, req)
             /\ UNCHANGED <<products, orders, nextOrder>>
        ELSE /\ orders' = InsertOrder(orders, nextOrder + 1, inv, cart)
             /\ nextOrder' = nextOrder + 1
             /\ products' = DecrementAll(products, cart, 1)
             /\ Respond("createOrder", 200, req)

\* ------------------------------------------------------- update order
\* item.productId || item._id
ItemId(item) == IF item.productId # NoId THEN item.productId ELSE item._id

\* cartItems.find(i => (i.productId || i._id).toString() === oldItem._id.toString()):
\* the callback runs on the first element at least, and oldItem._id.toString()
\* throws there when the old item has no _id.
FindUpdatedThrows(cart, old) == cart # <<>> /\ old._id = NoId
FindUpdated(cart, old) == \E j \in 1..Len(cart) : ItemId(cart[j]) = old._id

\* STEP 1: restore stock for removed items.
RECURSIVE RestoreRemoved(_, _, _, _)
RestoreRemoved(prods, orig, cart, k) ==
  IF k > Len(orig) THEN [products |-> prods, threw |-> FALSE]
  ELSE IF FindUpdatedThrows(cart, orig[k]) THEN [products |-> prods, threw |-> TRUE]
  ELSE IF FindUpdated(cart, orig[k]) THEN RestoreRemoved(prods, orig, cart, k + 1)
  ELSE RestoreRemoved(IncStock(prods, orig[k]._id, orig[k].quantity), orig, cart, k + 1)

\* originalItems.find(i => i._id.toString() === itemId.toString()): the index of
\* the first match, 0 for none, -1 when an element before it has no _id (throws).
RECURSIVE FindOld(_, _, _)
FindOld(orig, id, j) ==
  IF j > Len(orig) THEN 0
  ELSE IF orig[j]._id = NoId THEN 0 - 1
  ELSE IF orig[j]._id = id THEN j
  ELSE FindOld(orig, id, j + 1)

\* Variant: a kept item is charged its full new quantity, not the delta.
SyncItemFull(prods, orig, item, f) ==
  IncStock(prods, ItemId(item), 0 - item.quantity)

\* One pass of the STEP 2 loop body, for an item found at index f (0: new item).
SyncItem(prods, orig, item, f) ==
  IF f = 0 THEN IncStock(prods, ItemId(item), 0 - item.quantity)
  ELSE LET delta == item.quantity - orig[f].quantity
       IN IF delta # 0 THEN IncStock(prods, ItemId(item), 0 - delta) ELSE prods

\* STEP 2: sync changed and new items.
RECURSIVE SyncItems(_, _, _, _)
SyncItems(prods, orig, cart, k) ==
  IF k > Len(cart) THEN [products |-> prods, threw |-> FALSE]
  ELSE LET f == FindOld(orig, ItemId(cart[k]), 1)
       IN IF f < 0 THEN [products |-> prods, threw |-> TRUE]
          ELSE SyncItems(SyncItem(prods, orig, cart[k], f), orig, cart, k + 1)

\* Steps 1 and 2 in sequence; a throw leaves the updates made before it.
Reconcile(prods, orig, cart) ==
  LET s1 == RestoreRemoved(prods, orig, cart, 1)
  IN IF s1.threw THEN s1 ELSE SyncItems(s1.products, orig, cart, 1)

\* updateOne({_id}, {$set: {customer, cartItems, pricing, status, updatedAt}})
SetOrder(ords, id, cart, status) ==
  IF Exists(ords, id)
  THEN [ords EXCEPT ![id] = [@ EXCEPT !.cartItems = cart, !.status = status]]
  ELSE ords

\* PUT /orders/:id: the id is first used, by new ObjectId(id), in the order's
\* updateOne, after steps 1 and 2 have run.
UpdateOrder(id, cart, status, orig) ==
  LET req == [id |-> id, cartItems |-> cart, status |-> status, originalItems |-> orig]
      r == Reconcile(products, orig, cart)
      threw == r.threw \/ ~IsValidOrderId(id)
  IN /\ products' = r.products
     /\ orders' = IF threw THEN orders ELSE SetOrder(orders, id, cart, status)
     /\ Respond("updateOrder", IF threw THEN 500 ELSE 200, req)
     /\ UNCHANGED <<nextOrder, procs>>

\* ---------------------------------------------- cancel, return, confirm
\* One pass of the restore loop body: $inc stock by item.quantity at item.productId.
RestoreItem(prods, item) == IncStock(prods, item.productId, item.quantity)

RECURSIVE RestoreAll(_, _, _)
RestoreAll(prods, cart, i) ==
  IF i > Len(cart) THEN prods
  ELSE RestoreAll(RestoreItem(prods, cart[i]), cart, i + 1)

SetStatus(ords, id, status) ==
  IF Exists(ords, id) THEN [ords EXCEPT ![id].status = status] ELSE ords

\* Variant: the already-canceled / already-returned guard is missing.
AlreadyInNever(order, target) == FALSE

\* The guard both handlers share: the order is already in the target status.
AlreadyIn(order, target) == order.status = target

\* PATCH /orders/cancel/:id and PATCH /orders/return/:id differ in the target.
\* new ObjectId(orderId) of the findOne throws on a malformed id: 500.
CloseOrder(op, id, target) ==
  /\ IF ~IsValidOrderId(id)
     THEN /\ Respond(op, 500, [id |-> id])
          /\ UNCHANGED <<products, orders>>
     ELSE IF ~Exists(orders, id)
     THEN /\ Respond(op, 404, [id |-> id])
          /\ UNCHANGED <<products, orders>>
     ELSE IF AlreadyIn(orders[id], target)
     THEN /\ Respond(op, 400, [id |-> id])
          /\ UNCHANGED <<products, orders>>
     ELSE /\ products' = RestoreAll(products, orders[id].cartItems, 1)
          /\ orders' = SetStatus(orders, id, target)
          /\ Respond(op, 200, [id |-> id])
  /\ UNCHANGED <<nextOrder, procs>>

CancelOrder(id) == CloseOrder("cancelOrder", id, "canceled")
ReturnOrder(id) == CloseOrder("returnOrder", id, "returned")

\* result.modifiedCount of updateOne({_id}, {$set: {status: "confirmed"}})
ConfirmModified(ords, id) == Exists(ords, id) /\ ords[id].status # "confirmed"

\* The body res.send is given: modifiedCount = 1 or anything else.
ConfirmBody(modified) ==
  IF modified THEN [success |-> TRUE, message |-> "Order confirmed"]
  ELSE [success |-> FALSE, message |-> "Order not found"]

\* PATCH /orders/confirm/:id: status 200 whatever modifiedCount is; 500 from
\* the catch block when new ObjectId(id) throws.
ConfirmOrder(id) ==
  /\ orders' = IF IsValidOrderId(id) THEN SetStatus(orders, id, "confirmed") ELSE orders
  /\ last' = IF IsValidOrderId(id)
             THEN [op |-> "confirmOrder", code |-> 200, req |-> [id |-> id],
                   success |-> ConfirmBody(ConfirmModified(orders, id)).success,
                   message |-> ConfirmBody(ConfirmModified(orders, id)).message]
             ELSE [op |-> "confirmOrder", code |-> 500, req |-> [id |-> id],
                   success |-> FALSE, message |-> "Server error"]
  /\ pre' = [products |-> products, orders |-> orders]
  /\ nreq' = nreq + 1
  /\ UNCHANGED <<products, nextOrder, procs>>

\* Variant: deleting an order gives its items' stock back.
DeleteOrderRestoring(id) ==
  /\ IF Exists(orders, id)
     THEN /\ orders' = [orders EXCEPT ![id] = NoDoc]
          /\ products' = RestoreAll(products, orders[id].cartItems, 1)
          /\ Respond("deleteOrder", 200, [id |-> id])
     ELSE /\ UNCHANGED <<orders, products>>
          /\ Respond("deleteOrder", IF IsValidOrderId(id) THEN 404 ELSE 400, [id |-> id])
  /\ UNCHANGED <<nextOrder, procs>>

\* DELETE /orders/:id
DeleteOrder(id) ==
  /\ IF ~IsValidOrderId(id)
     THEN /\ orders' = orders
          /\ Respond("deleteOrder", 400, [id |-> id])
     ELSE IF Exists(orders, id)
     THEN /\ orders' = [orders EXCEPT ![id] = NoDoc]
          /\ Respond("deleteOrder", 200, [id |-> id])
     ELSE /\ orders' = orders
          /\ Respond("deleteOrder", 404, [id |-> id])
  /\ UNCHANGED <<products, nextOrder, procs>>

\* ------------------------------------------------------------ products
\* A value a field of req.body holds: a number, the text "abc", the empty
\* string, or nothing (the field is left out: undefined).
Num(n) == [t |-> "number", v |-> n]
Text == [t |-> "text", v |-> 0]
Empty == [t |-> "empty", v |-> 0]
Missing == [t |-> "missing", v |-> 0]

\* A JavaScript number: NaN, or a value.  price and finalPrice count
\* ten-thousandths (1.00 is 10000), discount counts percent, stock counts units.
NaN == [nan |-> TRUE, v |-> 0]
Val(n) == [nan |-> FALSE, v |-> n]

\* Number(x): Number("abc") and Number(undefined) are NaN, Number("") is 0.
Number(x) ==
  IF x.t = "number" THEN Val(x.v)
  ELSE IF x.t = "empty" THEN Val(0)
  ELSE NaN

\* isNaN(x)
IsNaN(x) == x.nan

\* A destructuring default (stock = 0, discount = 0) replaces undefined only.
OrDefault(x, d) == IF x.t = "missing" THEN d ELSE x

\* price - (price * discount) / 100; the prices drawn are whole hundredths,
\* so the division is exact.
Discounted(price, discount) ==
  IF price.nan \/ discount.nan THEN NaN
  ELSE Val(price.v - (price.v * discount.v) \div 100)

\* Math.max(x, 0): NaN stays NaN.
MaxZero(x) == IF x.nan THEN NaN ELSE IF x.v < 0 THEN Val(0) ELSE x

\* Variant: the price is stored as computed, with all its decimals.
ToFixedNone(x) == {x}

\* Number(x.toFixed(2)): the nearest multiple of one hundredth; for a value
\* halfway between two the double that stands for it lies on either side, so
\* either neighbour can come out.  NaN.toFixed(2) is "NaN".
ToFixed2(x) ==
  IF x.nan THEN {NaN}
  ELSE LET lo == (x.v \div 100) * 100
           r == x.v % 100
       IN IF r < 50 THEN {Val(lo)}
          ELSE IF r > 50 THEN {Val(lo + 100)}
          ELSE {Val(lo), Val(lo + 100)}

\* The numbers of a stored product; a field named in nan holds NaN.
NumberFields == {"stock", "price", "discount", "finalPrice"}
Document(n) ==
  [stock |-> n.stock.v, price |-> n.price.v, discount |-> n.discount.v,
   finalPrice |-> n.finalPrice.v, nan |-> {f \in NumberFields : n[f].nan}]

\* if (!img || !name || price == null)
RequiredMissing(body) == ~body.img \/ ~body.name \/ body.price.t = "missing"

\* newProduct of POST /products for each outcome of toFixed; the body's _id
\* and finalPrice are not read.
NewProduct(body) ==
  LET safePrice == Number(body.price)
      safeDiscount == Number(OrDefault(body.discount, Num(0)))
      safeStock == Number(OrDefault(body.stock, Num(0)))
      finalPrice == MaxZero(Discounted(safePrice, safeDiscount))
  IN { Document([stock |-> safeStock, price |-> safePrice,
                 discount |-> safeDiscount, finalPrice |-> fixed]) :
         fixed \in ToFixed2(finalPrice) }

\* GET /products/:id
GetProduct(id) ==
  /\ Respond("getProduct",
             IF ~IsValidProductId(id) THEN 400
             ELSE IF Exists(products, id) THEN 200 ELSE 404,
             [id |-> id])
  /\ UNCHANGED <<products, orders, nextOrder, procs>>

\* POST /products: insertOne(newProduct) under a fresh _id.
CreateProduct(id, body) ==
  /\ ~Exists(products, id)
  /\ IF RequiredMissing(body)
     THEN /\ products' = products
          /\ Respond("createProduct", 400, [id |-> id, body |-> body])
     ELSE /\ \E doc \in NewProduct(body) : products' = [products EXCEPT ![id] = doc]
          /\ Respond("createProduct", 201, [id |-> id, body |-> body])
  /\ UNCHANGED <<orders, nextOrder, procs>>

\* data of PUT /products/:id after delete data._id, delete data.finalPrice,
\* the three Number(...) and the finalPrice assignment.
UpdateData(body) ==
  LET stock == Number(body.stock)
      price == Number(body.price)
      discount == Number(body.discount)
  IN [stock |-> stock, price |-> price, discount |-> discount,
      finalPrice |-> Discounted(price, discount)]

\* PUT /products/:id: updateOne({_id}, {$set: data}); the response carries
\* data.finalPrice.
UpdateProduct(id, body) ==
  LET req == [id |-> id, body |-> body]
      data == UpdateData(body)
      code == IF ~IsValidProductId(id) THEN 400
              ELSE IF IsNaN(data.stock) \/ IsNaN(data.price) THEN 400
              ELSE IF ~Exists(products, id) THEN 404
              ELSE 200
  IN /\ products' = IF code = 200 THEN [products EXCEPT ![id] = Document(data)]
                    ELSE products
     /\ last' = [op |-> "updateProduct", code |-> code, req |-> req,
                 finalPrice |-> data.finalPrice]
     /\ pre' = [products |-> products, orders |-> orders]
     /\ nreq' = nreq + 1
     /\ UNCHANGED <<orders, nextOrder, procs>>

\* Variant: deleting a product also deletes the orders that hold it.
DeleteProductCascading(id) ==
  /\ products' = IF Exists(products, id) THEN [products EXCEPT ![id] = NoDoc] ELSE products
  /\ orders' = [o \in OrderIds |->
        IF /\ Exists(orders, o)
           /\ \E i \in 1..Len(orders[o].cartItems) : orders[o].cartItems[i].productId = id
        THEN NoDoc ELSE orders[o]]
  /\ Respond("deleteProduct", IF Exists(products, id) THEN 200 ELSE 404, [id |-> id])
  /\ UNCHANGED <<nextOrder, procs>>

\* DELETE /products/:id
DeleteProduct(id) ==
  /\ IF ~IsValidProductId(id)
     THEN /\ products' = products
          /\ Respond("deleteProduct", 400, [id |-> id])
     ELSE IF Exists(products, id)
     THEN /\ products' = [products EXCEPT ![id] = NoDoc]
          /\ Respond("deleteProduct", 200, [id |-> id])
     ELSE /\ products' = products
          /\ Respond("deleteProduct", 404, [id |-> id])
  /\ UNCHANGED <<orders, nextOrder, procs>>
\* A product payload with every field a number, the price 100.00 with no
\* discount, and the document POST /products stores for it.
StockBody(s) ==
  [img |-> TRUE, name |-> TRUE, price |-> Num(1000000), discount |-> Num(0),
   stock |-> Num(s), finalPrice |-> Missing, _id |-> NoId]
StockBodies == { StockBody(s) : s \in StockInputs }
Product(s) == CHOOSE doc \in NewProduct(StockBody(s)) : TRUE

\* ------------------------------------------------------- specification
Idle == [pc |-> "idle"]

Init ==
  /\ products \in [AllProductIds ->
        { Product(s) : s \in 0..MaxStock } \cup {NoDoc}]
  /\ \A p \in ProductIds : products[p] # NoDoc
  /\ \A p \in NewProductIds : products[p] = NoDoc
  /\ orders = [id \in OrderIds |-> NoDoc]
  /\ nextOrder = 0
  /\ last = [op |-> "none", code |-> 0, req |-> NoId]
  /\ pre = [products |-> products, orders |-> orders]
  /\ nreq = 0
  /\ procs = [p \in Procs |-> Idle]

\* The originalItems an update sends: the cartItems the order holds (the
\* client edits the order it fetched), or none for an id without an order.
HeldItems(id) == IF Exists(orders, id) THEN orders[id].cartItems ELSE <<>>

\* Requests are handled while the bound on their number allows.
More == nreq < MaxRequests

Next ==
  \/ More /\ \E inv \in Invoices, cart \in Carts : CreateOrder(inv, cart)
  \/ More /\ \E id \in OrderIds, cart \in Carts, st \in Statuses :
               UpdateOrder(id, cart, st, HeldItems(id))
  \/ More /\ \E id \in OrderIds : CancelOrder(id)
  \/ More /\ \E id \in OrderIds : ReturnOrder(id)
  \/ More /\ \E id \in OrderIds : ConfirmOrder(id)
  \/ More /\ \E id \in OrderIds : DeleteOrder(id)
  \/ More /\ \E id \in NewProductIds, body \in StockBodies : CreateProduct(id, body)
  \/ More /\ \E id \in ProductIds, body \in StockBodies : UpdateProduct(id, body)
  \/ More /\ \E id \in ProductIds : DeleteProduct(id)

Spec == Init /\ [][Next]_vars

\* ---------------------------------- requests on the orders that exist
\* The client edits an order it fetched: originalItems are the cartItems held.
NextLife ==
  \/ More /\ \E inv \in Invoices, cart \in Carts : CreateOrder(inv, cart)
  \/ More /\ \E id \in OrderIds, cart \in Carts, st \in Statuses :
               Exists(orders, id) /\ UpdateOrder(id, cart, st, orders[id].cartItems)
  \/ More /\ \E id \in OrderIds : CancelOrder(id)
  \/ More /\ \E id \in OrderIds : ReturnOrder(id)
  \/ More /\ \E id \in OrderIds : ConfirmOrder(id)

SpecLife == Init /\ [][NextLife]_vars

\* ------------------------------------ place, confirm, cancel and return
NextStatus ==
  \/ More /\ \E inv \in Invoices, cart \in Carts : CreateOrder(inv, cart)
  \/ More /\ \E id \in OrderIds : ConfirmOrder(id)
  \/ More /\ \E id \in OrderIds : CancelOrder(id)
  \/ More /\ \E id \in OrderIds : ReturnOrder(id)

SpecStatus == Init /\ [][NextStatus]_vars

\* ------------------------------------------------- create order alone
\* The collections a create order may find: products in stock, out of stock
\* or deleted, and no order yet or one placed with an empty cart.
InitCreate ==
  /\ products \in [AllProductIds ->
        { Product(s) : s \in 0..MaxStock } \cup {NoDoc}]
  /\ \A p \in NewProductIds : products[p] = NoDoc
  /\ \E held \in {0, 1} :
       /\ orders = [id \in OrderIds |->
            IF id <= held
            THEN [invoiceNumber |-> "INV1", cartItems |-> <<>>, status |-> "pending"]
            ELSE NoDoc]
       /\ nextOrder = held
  /\ last = [op |-> "none", code |-> 0, req |-> NoId]
  /\ pre = [products |-> products, orders |-> orders]
  /\ nreq = 0
  /\ procs = [p \in Procs |-> Idle]

NextCreate ==
  /\ nreq = 0
  /\ \E inv \in Invoices, cart \in CreateCarts : CreateOrder(inv, cart)

SpecCreate == InitCreate /\ [][NextCreate]_vars

\* ------------------------------------------------- update order alone
\* An order placed with an empty cart is held, pending; stock is untouched.
InitUpdate ==
  /\ products = [p \in AllProductIds |->
        IF p \in ProductIds THEN Product(MaxEditQty) ELSE NoDoc]
  /\ orders = [id \in OrderIds |->
        IF id = 1 THEN [invoiceNumber |-> "INV1", cartItems |-> <<>>, status |-> "pending"]
        ELSE NoDoc]
  /\ nextOrder = 1
  /\ last = [op |-> "none", code |-> 0, req |-> NoId]
  /\ pre = [products |-> products, orders |-> orders]
  /\ nreq = 0
  /\ procs = [p \in Procs |-> Idle]

NextUpdate ==
  /\ nreq = 0
  /\ \E cart \in EditLists, orig \in EditLists : UpdateOrder(1, cart, "pending", orig)

SpecUpdate == InitUpdate /\ [][NextUpdate]_vars

\* ------------------------------------- update order, items in any order
\* The same held order; the item lists carry both fields, so no lookup
\* throws, and may name a product more than once, as a placed cart may.
MaxListed == 2
ListedItems == SeqsUpTo(BothItems(MaxQty), MaxListed)

NextListed ==
  /\ nreq = 0
  /\ \E cart \in ListedItems, orig \in ListedItems : UpdateOrder(1, cart, "pending", orig)

SpecListed == InitUpdate /\ [][NextListed]_vars

\* ------------------------------------------------ product requests alone
\* One request of a product route, its payload drawn field by field: prices
\* 0, 0.10, 9.99 and 100.00, discounts of 0, 5, 10, 20 and 150 percent, each
\* field also as text, as the empty string and left out.
PriceInputs == {Num(0), Num(1000), Num(99900), Num(1000000), Text, Empty, Missing}
DiscountInputs == {Num(0), Num(5), Num(10), Num(20), Num(150), Text, Empty, Missing}
StockFields == {Num(0), Num(MaxStock), Text, Empty, Missing}
ProductBodies ==
  { [img |-> i, name |-> TRUE, price |-> p, discount |-> d, stock |-> s,
     finalPrice |-> f, _id |-> o] :
      i \in BOOLEAN, p \in PriceInputs, d \in DiscountInputs, s \in StockFields,
      f \in {Missing, Num(10000)}, o \in {NoId, "B"} }

NextProducts ==
  \/ nreq = 0 /\ \E id \in AnyProductId : GetProduct(id)
  \/ nreq = 0 /\ \E id \in NewProductIds, body \in ProductBodies : CreateProduct(id, body)
  \/ nreq = 0 /\ \E id \in AnyProductId, body \in ProductBodies : UpdateProduct(id, body)
  \/ nreq = 0 /\ \E id \in AnyProductId : DeleteProduct(id)

SpecProducts == Init /\ [][NextProducts]_vars

\* --------------------------------------- requests carrying any identifier
\* Every route that takes an identifier, the identifier well-formed or not.
MoreIds == nreq < MaxIdRequests

NextIds ==
  \/ MoreIds /\ \E inv \in Invoices, cart \in IdCarts : CreateOrder(inv, cart)
  \/ MoreIds /\ \E id \in AnyOrderId, cart \in Carts, st \in Statuses :
                  UpdateOrder(id, cart, st, HeldItems(id))
  \/ MoreIds /\ \E id \in AnyOrderId : CancelOrder(id)
  \/ MoreIds /\ \E id \in AnyOrderId : ReturnOrder(id)
  \/ MoreIds /\ \E id \in AnyOrderId : ConfirmOrder(id)
  \/ MoreIds /\ \E id \in AnyOrderId : DeleteOrder(id)
  \/ MoreIds /\ \E id \in AnyProductId : GetProduct(id)
  \/ MoreIds /\ \E id \in AnyProductId, body \in StockBodies : UpdateProduct(id, body)
  \/ MoreIds /\ \E id \in AnyProductId : DeleteProduct(id)

SpecIds == Init /\ [][NextIds]_vars

\* ---------------------------------------- create order, step by step
\* Every awaited database operation of POST /orders is one step of the
\* request; between two steps any other request may take steps.
\* res.status(code).send(...): the request is answered; sent counts the
\* responses it has received.
Answer(r, code) ==
  procs' = [procs EXCEPT ![r] = [@ EXCEPT !.pc = "done", !.code = code, !.sent = @ + 1]]

\* The request moves on to item i of the loop pc names.
Goto(r, pc, i) == procs' = [procs EXCEPT ![r] = [@ EXCEPT !.pc = pc, !.i = i]]

\* The request arrives: const order = req.body.
Arrive(r, inv, cart) ==
  /\ procs[r].pc = "idle"
  /\ procs' = [procs EXCEPT ![r] =
        [pc |-> "invoice", op |-> "createOrder", invoiceNumber |-> inv,
         cartItems |-> cart, i |-> 1, code |-> 0, sent |-> 0]]
  /\ UNCHANGED <<products, orders, nextOrder, last, pre, nreq>>

\* await orderCollection.findOne({invoiceNumber})
InvoiceStep(r) ==
  /\ procs[r].pc = "invoice"
  /\ IF InvoiceExists(orders, procs[r].invoiceNumber) THEN Answer(r, 400)
     ELSE procs' = [procs EXCEPT ![r].pc =
            IF procs[r].cartItems = <<>> THEN "insert" ELSE "check"]
  /\ UNCHANGED <<products, orders, nextOrder, last, pre, nreq>>

\* await productCollection.findOne({_id}) of the STOCK CHECK loop, item i
CheckStep(r) ==
  /\ procs[r].pc = "check"
  /\ LET cart == procs[r].cartItems
         i == procs[r].i
         chk == CheckItem(products, cart[i])
     IN IF chk # 200 THEN Answer(r, chk)
        ELSE IF i < Len(cart) THEN procs' = [procs EXCEPT ![r].i = i + 1]
        ELSE procs' = [procs EXCEPT ![r] = [@ EXCEPT !.pc = "insert", !.i = 1]]
  /\ UNCHANGED <<products, orders, nextOrder, last, pre, nreq>>

\* await orderCollection.insertOne(...)
InsertStep(r) ==
  /\ procs[r].pc = "insert"
  /\ nextOrder < MaxOrders
  /\ orders' = InsertOrder(orders, nextOrder + 1, procs[r].invoiceNumber, procs[r].cartItems)
  /\ nextOrder' = nextOrder + 1
  /\ IF procs[r].cartItems = <<>> THEN Answer(r, 200)
     ELSE procs' = [procs EXCEPT ![r] = [@ EXCEPT !.pc = "decrement", !.i = 1]]
  /\ UNCHANGED <<products, last, pre, nreq>>

\* await productCollection.updateOne(...) of the SAFE STOCK UPDATE loop, item i
DecrementStep(r) ==
  /\ procs[r].pc = "decrement"
  /\ LET cart == procs[r].cartItems
         i == procs[r].i
     IN /\ products' = DecItem(products, cart[i])
        /\ IF i < Len(cart) THEN procs' = [procs EXCEPT ![r].i = i + 1]
           ELSE Answer(r, 200)
  /\ UNCHANGED <<orders, nextOrder, last, pre, nreq>>

NextConc ==
  \/ \E r \in Procs, inv \in Invoices, cart \in ConcCarts : Arrive(r, inv, cart)
  \/ \E r \in Procs : InvoiceStep(r)
  \/ \E r \in Procs : CheckStep(r)
  \/ \E r \in Procs : InsertStep(r)
  \/ \E r \in Procs : DecrementStep(r)

SpecConc == Init /\ [][NextConc]_vars

\* -------------------------------------------- every route, step by step
\* One request in flight: each awaited database operation is one step, and
\* may reject, which the handler's catch block answers with 500.  A pass of
\* a loop of update order that awaits nothing is a step of its own.
ServeProcs == {"r1"}
\* Its carts: items of the least and of the greatest quantity; a create
\* order may also name a product by a malformed id.
ServeCarts ==
  SeqsUpTo({ [productId |-> p, _id |-> p, quantity |-> q] :
               p \in ProductIds, q \in {1, MaxQty} }, MaxCart)
BadCart == <<[productId |-> BadProductId, _id |-> BadProductId, quantity |-> 1]>>

\* PUT /orders/:id arrives; the first loop with an item to visit comes first.
ArriveUpdate(r, id, cart, status, orig) ==
  /\ procs[r].pc = "idle"
  /\ procs' = [procs EXCEPT ![r] =
        [pc |-> IF orig # <<>> THEN "restore" ELSE IF cart # <<>> THEN "sync" ELSE "save",
         op |-> "updateOrder", id |-> id, cartItems |-> cart, status |-> status,
         originalItems |-> orig, i |-> 1, code |-> 0, sent |-> 0]]
  /\ UNCHANGED <<products, orders, nextOrder, last, pre, nreq>>

\* STEP 1, old item i: restore its stock when the cart no longer holds it.
RestoreStep(r) ==
  /\ procs[r].pc = "restore"
  /\ LET cart == procs[r].cartItems
         orig == procs[r].originalItems
         k == procs[r].i
     IN IF FindUpdatedThrows(cart, orig[k])
        THEN Answer(r, 500) /\ UNCHANGED products
        ELSE /\ products' = IF FindUpdated(cart, orig[k]) THEN products
                            ELSE IncStock(products, orig[k]._id, orig[k].quantity)
             /\ IF k < Len(orig) THEN Goto(r, "restore", k + 1)
                ELSE Goto(r, IF cart # <<>> THEN "sync" ELSE "save", 1)
  /\ UNCHANGED <<orders, nextOrder, last, pre, nreq>>

\* STEP 2, cart item i: charge a new item, or the change of a kept one.
SyncStep(r) ==
  /\ procs[r].pc = "sync"
  /\ LET cart == procs[r].cartItems
         orig == procs[r].originalItems
         k == procs[r].i
         f == FindOld(orig, ItemId(cart[k]), 1)
     IN IF f < 0
        THEN Answer(r, 500) /\ UNCHANGED products
        ELSE /\ products' = SyncItem(products, orig, cart[k], f)
             /\ IF k < Len(cart) THEN Goto(r, "sync", k + 1) ELSE Goto(r, "save", 1)
  /\ UNCHANGED <<orders, nextOrder, last, pre, nreq>>

\* await orderCollection.updateOne({_id: new ObjectId(id)}, {$set: ...})
SaveStep(r) ==
  /\ procs[r].pc = "save"
  /\ IF ~IsValidOrderId(procs[r].id)
     THEN Answer(r, 500) /\ UNCHANGED orders
     ELSE /\ orders' = SetOrder(orders, procs[r].id, procs[r].cartItems, procs[r].status)
          /\ Answer(r, 200)
  /\ UNCHANGED <<products, nextOrder, last, pre, nreq>>

\* PATCH /orders/cancel/:id or PATCH /orders/return/:id arrives.
ArriveClose(r, id, target) ==
  /\ procs[r].pc = "idle"
  /\ procs' = [procs EXCEPT ![r] =
        [pc |-> "find", op |-> "closeOrder", id |-> id, target |-> target,
         cartItems |-> <<>>, i |-> 1, code |-> 0, sent |-> 0]]
  /\ UNCHANGED <<products, orders, nextOrder, last, pre, nreq>>

\* Variant: an order that is not found is left without an answer.
FindStepSilent(r) ==
  /\ procs[r].pc = "find"
  /\ LET id == procs[r].id
     IN IF ~IsValidOrderId(id) THEN Answer(r, 500)
        ELSE IF ~Exists(orders, id) THEN Goto(r, "unanswered", 1)
        ELSE IF AlreadyIn(orders[id], procs[r].target) THEN Answer(r, 400)
        ELSE procs' = [procs EXCEPT ![r] =
               [@ EXCEPT !.cartItems = orders[id].cartItems,
                         !.pc = IF orders[id].cartItems = <<>> THEN "status" ELSE "restock"]]
  /\ UNCHANGED <<products, orders, nextOrder, last, pre, nreq>>

\* await orderCollection.findOne({_id: new ObjectId(orderId)}) and the two
\* guards; the order read here is the one whose cartItems are restored.
FindStep(r) ==
  /\ procs[r].pc = "find"
  /\ LET id == procs[r].id
     IN IF ~IsValidOrderId(id) THEN Answer(r, 500)
        ELSE IF ~Exists(orders, id) THEN Answer(r, 404)
        ELSE IF AlreadyIn(orders[id], procs[r].target) THEN Answer(r, 400)
        ELSE procs' = [procs EXCEPT ![r] =
               [@ EXCEPT !.cartItems = orders[id].cartItems,
                         !.pc = IF orders[id].cartItems = <<>> THEN "status" ELSE "restock"]]
  /\ UNCHANGED <<products, orders, nextOrder, last, pre, nreq>>

\* await productCollection.updateOne(...) of the restore loop, item i
RestockStep(r) ==
  /\ procs[r].pc = "restock"
  /\ products' = RestoreItem(products, procs[r].cartItems[procs[r].i])
  /\ IF procs[r].i < Len(procs[r].cartItems) THEN Goto(r, "restock", procs[r].i + 1)
     ELSE Goto(r, "status", 1)
  /\ UNCHANGED <<orders, nextOrder, last, pre, nreq>>

\* await orderCollection.updateOne({_id}, {$set: {status: target}})
StatusStep(r) ==
  /\ procs[r].pc = "status"
  /\ orders' = SetStatus(orders, procs[r].id, procs[r].target)
  /\ Answer(r, 200)
  /\ UNCHANGED <<products, nextOrder, last, pre, nreq>>

\* A request of an order route that awaits one database operation arrives.
ArriveOne(r, op, id) ==
  /\ procs[r].pc = "idle"
  /\ procs' = [procs EXCEPT ![r] =
        [pc |-> op, op |-> op, id |-> id, i |-> 1, code |-> 0, sent |-> 0]]
  /\ UNCHANGED <<products, orders, nextOrder, last, pre, nreq>>

\* A request of a product route arrives; insertedId of POST /products is fresh.
ArriveProduct(r, op, id, body) ==
  /\ procs[r].pc = "idle"
  /\ op = "createProduct" => ~Exists(products, id)
  /\ procs' = [procs EXCEPT ![r] =
        [pc |-> op, op |-> op, pid |-> id, body |-> body, i |-> 1, code |-> 0, sent |-> 0]]
  /\ UNCHANGED <<products, orders, nextOrder, last, pre, nreq>>

\* PATCH /orders/confirm/:id
ConfirmStep(r) ==
  /\ procs[r].pc = "confirmOrder"
  /\ IF ~IsValidOrderId(procs[r].id)
     THEN Answer(r, 500) /\ UNCHANGED orders
     ELSE /\ orders' = SetStatus(orders, procs[r].id, "confirmed")
          /\ Answer(r, 200)
  /\ UNCHANGED <<products, nextOrder, last, pre, nreq>>

\* DELETE /orders/:id
DeleteOrderStep(r) ==
  /\ procs[r].pc = "deleteOrder"
  /\ LET id == procs[r].id
     IN IF ~IsValidOrderId(id) THEN Answer(r, 400) /\ UNCHANGED orders
        ELSE IF Exists(orders, id)
        THEN orders' = [orders EXCEPT ![id] = NoDoc] /\ Answer(r, 200)
        ELSE Answer(r, 404) /\ UNCHANGED orders
  /\ UNCHANGED <<products, nextOrder, last, pre, nreq>>

\* GET /products/:id
GetProductStep(r) ==
  /\ procs[r].pc = "getProduct"
  /\ Answer(r, IF ~IsValidProductId(procs[r].pid) THEN 400
               ELSE IF Exists(products, procs[r].pid) THEN 200 ELSE 404)
  /\ UNCHANGED <<products, orders, nextOrder, last, pre, nreq>>

\* POST /products
CreateProductStep(r) ==
  /\ procs[r].pc = "createProduct"
  /\ IF RequiredMissing(procs[r].body)
     THEN Answer(r, 400) /\ UNCHANGED products
     ELSE /\ \E doc \in NewProduct(procs[r].body) :
               products' = [products EXCEPT ![procs[r].pid] = doc]
          /\ Answer(r, 201)
  /\ UNCHANGED <<orders, nextOrder, last, pre, nreq>>

\* PUT /products/:id
UpdateProductStep(r) ==
  /\ procs[r].pc = "updateProduct"
  /\ LET id == procs[r].pid
         data == UpdateData(procs[r].body)
     IN IF ~IsValidProductId(id) THEN Answer(r, 400) /\ UNCHANGED products
        ELSE IF IsNaN(data.stock) \/ IsNaN(data.price) THEN Answer(r, 400) /\ UNCHANGED products
        ELSE IF ~Exists(products, id) THEN Answer(r, 404) /\ UNCHANGED products
        ELSE products' = [products EXCEPT ![id] = Document(data)] /\ Answer(r, 200)
  /\ UNCHANGED <<orders, nextOrder, last, pre, nreq>>

\* DELETE /products/:id
DeleteProductStep(r) ==
  /\ procs[r].pc = "deleteProduct"
  /\ LET id == procs[r].pid
     IN IF ~IsValidProductId(id) THEN Answer(r, 400) /\ UNCHANGED products
        ELSE IF Exists(products, id)
        THEN products' = [products EXCEPT ![id] = NoDoc] /\ Answer(r, 200)
        ELSE Answer(r, 404) /\ UNCHANGED products
  /\ UNCHANGED <<orders, nextOrder, last, pre, nreq>>

\* The step the request is at awaits a database operation (no validation or
\* exception ends the handler before it).
Awaits(r) ==
  LET p == procs[r]
  IN CASE p.pc \in {"invoice", "insert", "decrement", "restock", "status"} -> TRUE
       [] p.pc = "check" -> IsValidProductId(p.cartItems[p.i].productId)
       [] p.pc = "restore" ->
            /\ ~FindUpdatedThrows(p.cartItems, p.originalItems[p.i])
            /\ ~FindUpdated(p.cartItems, p.originalItems[p.i])
       [] p.pc = "sync" ->
            LET f == FindOld(p.originalItems, ItemId(p.cartItems[p.i]), 1)
            IN \/ f = 0
               \/ f > 0 /\ p.cartItems[p.i].quantity # p.originalItems[f].quantity
       [] p.pc \in {"save", "find", "confirmOrder", "deleteOrder"} -> IsValidOrderId(p.id)
       [] p.pc \in {"getProduct", "deleteProduct"} -> IsValidProductId(p.pid)
       [] p.pc = "createProduct" -> ~RequiredMissing(p.body)
       [] p.pc = "updateProduct" ->
            /\ IsValidProductId(p.pid)
            /\ ~IsNaN(UpdateData(p.body).stock)
            /\ ~IsNaN(UpdateData(p.body).price)
       [] OTHER -> FALSE

\* The awaited operation rejects: the catch block answers 500.
FailStep(r) ==
  /\ Awaits(r)
  /\ Answer(r, 500)
  /\ UNCHANGED <<products, orders, nextOrder, last, pre, nreq>>

\* The collections a request may find: each product out of stock or fully
\* stocked, and no order or one order in any status.
InitServe ==
  /\ products \in [AllProductIds -> { Product(s) : s \in {0, MaxStock} } \cup {NoDoc}]
  /\ \A p \in ProductIds : products[p] # NoDoc
  /\ \A p \in NewProductIds : products[p] = NoDoc
  /\ \E held \in {0, 1}, cart \in ServeCarts, st \in Statuses :
       /\ orders = [id \in OrderIds |->
            IF id <= held
            THEN [invoiceNumber |-> "INV1", cartItems |-> cart, status |-> st]
            ELSE NoDoc]
       /\ nextOrder = held
  /\ last = [op |-> "none", code |-> 0, req |-> NoId]
  /\ pre = [products |-> products, orders |-> orders]
  /\ nreq = 0
  /\ procs = [p \in Procs |-> Idle]

NextServe ==
  \/ \E r \in ServeProcs, inv \in Invoices, cart \in ServeCarts \cup {BadCart} :
       Arrive(r, inv, cart)
  \/ \E r \in ServeProcs, id \in AnyOrderId, cart \in ServeCarts :
       ArriveUpdate(r, id, cart, "pending", HeldItems(id))
  \/ \E r \in ServeProcs, id \in AnyOrderId, target \in {"canceled", "returned"} :
       ArriveClose(r, id, target)
  \/ \E r \in ServeProcs, op \in {"confirmOrder", "deleteOrder"}, id \in AnyOrderId :
       ArriveOne(r, op, id)
  \/ \E r \in ServeProcs, op \in {"getProduct", "deleteProduct"}, id \in AnyProductId :
       ArriveProduct(r, op, id, StockBody(0))
  \/ \E r \in ServeProcs, id \in NewProductIds, body \in StockBodies :
       ArriveProduct(r, "createProduct", id, body)
  \/ \E r \in ServeProcs, id \in AnyProductId, body \in StockBodies :
       ArriveProduct(r, "updateProduct", id, body)
  \/ \E r \in ServeProcs : InvoiceStep(r)
  \/ \E r \in ServeProcs : CheckStep(r)
  \/ \E r \in ServeProcs : InsertStep(r)
  \/ \E r \in ServeProcs : DecrementStep(r)
  \/ \E r \in ServeProcs : RestoreStep(r)
  \/ \E r \in ServeProcs : SyncStep(r)
  \/ \E r \in ServeProcs : SaveStep(r)
  \/ \E r \in ServeProcs : FindStep(r)
  \/ \E r \in ServeProcs : RestockStep(r)
  \/ \E r \in ServeProcs : StatusStep(r)
  \/ \E r \in ServeProcs : ConfirmStep(r)
  \/ \E r \in ServeProcs : DeleteOrderStep(r)
  \/ \E r \in ServeProcs : GetProductStep(r)
  \/ \E r \in ServeProcs : CreateProductStep(r)
  \/ \E r \in ServeProcs : UpdateProductStep(r)
  \/ \E r \in ServeProcs : DeleteProductStep(r)
  \/ \E r \in ServeProcs : FailStep(r)

\* The step a request in flight takes next: its awaited operation settles,
\* by resolving or by rejecting.
Settle(r) ==
  \/ InvoiceStep(r) \/ CheckStep(r) \/ InsertStep(r) \/ DecrementStep(r)
  \/ RestoreStep(r) \/ SyncStep(r) \/ SaveStep(r)
  \/ FindStep(r) \/ RestockStep(r) \/ StatusStep(r)
  \/ ConfirmStep(r) \/ DeleteOrderStep(r)
  \/ GetProductStep(r) \/ CreateProductStep(r) \/ UpdateProductStep(r)
  \/ DeleteProductStep(r)
  \/ FailStep(r)

\* Every awaited operation settles and the event loop runs the continuation:
\* a request in flight goes on taking steps.
SpecServe ==
  InitServe /\ [][NextServe]_vars /\ \A r \in ServeProcs : WF_vars(Settle(r))

\* ------------------------------------ one order: place, update, cancel
\* Every product holds MaxEditQty and no order is stored.  One order is
\* placed (its items carry productId, as create order reads them, with or
\* without _id), updated with originalItems equal to the cartItems held
\* (items named by productId, by _id or by both), and canceled.
PlaceCarts == SeqsUpTo(PidItems(MaxQty) \cup BothItems(MaxQty), MaxCart)
RoundCarts ==
  SeqsUpTo(PidItems(MaxQty) \cup OidItems(MaxQty) \cup BothItems(MaxQty), MaxCart)

InitRound ==
  /\ products = [p \in AllProductIds |->
        IF p \in ProductIds THEN Product(MaxEditQty) ELSE NoDoc]
  /\ orders = [id \in OrderIds |-> NoDoc]
  /\ nextOrder = 0
  /\ last = [op |-> "none", code |-> 0, req |-> NoId]
  /\ pre = [products |-> products, orders |-> orders]
  /\ nreq = 0
  /\ procs = [p \in Procs |-> Idle]

NextRound ==
  \/ More /\ nextOrder = 0 /\ \E inv \in Invoices, cart \in PlaceCarts : CreateOrder(inv, cart)
  \/ More /\ Exists(orders, 1) /\ orders[1].status = "pending"
          /\ \E cart \in RoundCarts : UpdateOrder(1, cart, "pending", orders[1].cartItems)
  \/ More /\ Exists(orders, 1) /\ orders[1].status = "pending" /\ CancelOrder(1)

SpecRound == InitRound /\ [][NextRound]_vars

\* ------------------------------------------- two cancels, step by step
\* Two cancel requests in flight over the collections of InitServe; the
\* steps of one interleave with the steps of the other.
NextCancel ==
  \/ \E r \in Procs, id \in OrderIds : ArriveClose(r, id, "canceled")
  \/ \E r \in Procs : FindStep(r)
  \/ \E r \in Procs : RestockStep(r)
  \/ \E r \in Procs : StatusStep(r)

SpecCancel == InitServe /\ [][NextCancel]_vars

\* ================================================================ claims
\* What the claims speak of, read off the requests and the collections.
\* A cart item's product: productId, else _id (how update order names it).
NamedBy(item) == IF item.productId # NoId THEN item.productId ELSE item._id

\* Quantity a cart orders of product p, items named by productId.
RECURSIVE QtyFrom(_, _, _)
QtyFrom(cart, p, i) ==
  IF i > Len(cart) THEN 0
  ELSE (IF cart[i].productId = p THEN cart[i].quantity ELSE 0) + QtyFrom(cart, p, i + 1)
QtyFor(cart, p) == QtyFrom(cart, p, 1)

RECURSIVE TotalFrom(_, _)
TotalFrom(cart, i) ==
  IF i > Len(cart) THEN 0 ELSE cart[i].quantity + TotalFrom(cart, i + 1)
TotalQty(cart) == TotalFrom(cart, 1)

\* Quantity of product p in an update's originalItems, items named by _id.
RECURSIVE OrigFrom(_, _, _)
OrigFrom(orig, p, i) ==
  IF i > Len(orig) THEN 0
  ELSE (IF orig[i]._id = p THEN orig[i].quantity ELSE 0) + OrigFrom(orig, p, i + 1)
OrigQty(orig, p) == OrigFrom(orig, p, 1)

\* Quantity of product p in an update's cartItems.
RECURSIVE NewFrom(_, _, _)
NewFrom(cart, p, i) ==
  IF i > Len(cart) THEN 0
  ELSE (IF NamedBy(cart[i]) = p THEN cart[i].quantity ELSE 0) + NewFrom(cart, p, i + 1)
NewQty(cart, p) == NewFrom(cart, p, 1)

\* The sum of f over S.
RECURSIVE SumFn(_, _)
SumFn(f, S) ==
  IF S = {} THEN 0 ELSE LET x == CHOOSE y \in S : TRUE IN f[x] + SumFn(f, S \ {x})

Stored(coll, id) == coll[id] # NoDoc
HasInvoice(ords, inv) ==
  \E id \in OrderIds : Stored(ords, id) /\ ords[id].invoiceNumber = inv
\* The item asks for more than its product has.
Short(prods, item) ==
  /\ item.productId \in AllProductIds
  /\ Stored(prods, item.productId)
  /\ item.quantity > prods[item.productId].stock
\* The item's product exists and has at least the quantity asked.
InStock(prods, item) ==
  /\ item.productId \in AllProductIds
  /\ Stored(prods, item.productId)
  /\ item.quantity <= prods[item.productId].stock
NothingChanged == products = pre.products /\ orders = pre.orders

\* C1: a create order whose cart holds an item asking for more than its
\* product's stock is rejected, and leaves every product and the orders as
\* they were.
C1_ShortCartRejected ==
  (/\ last.op = "createOrder"
   /\ \E i \in 1..Len(last.req.cartItems) : Short(pre.products, last.req.cartItems[i]))
  => (last.code \in {400, 404} /\ NothingChanged)

\* C1 witness: the first item had enough stock, the second did not.
C1_Witness ==
  /\ last.op = "createOrder"
  /\ last.code = 400
  /\ ~HasInvoice(pre.orders, last.req.invoiceNumber)
  /\ Len(last.req.cartItems) = 2
  /\ InStock(pre.products, last.req.cartItems[1])
  /\ Short(pre.products, last.req.cartItems[2])
  /\ last.req.cartItems[1].productId # last.req.cartItems[2].productId

\* C2: after any sequence of requests handled one at a time, every
\* product's stock is at least 0.
C2_StockNonNegative ==
  \A p \in AllProductIds : Stored(products, p) => products[p].stock >= 0

\* C3: while create order requests interleave, no product's stock is
\* below 0.
C3_ConcurrentStockNonNegative ==
  \A p \in ProductIds :
    (Stored(products, p) /\ \E r \in Procs : procs[r].pc # "idle")
      => products[p].stock >= 0

\* C4: no two stored orders carry the same invoiceNumber.
C4_InvoiceUnique ==
  \A a, b \in OrderIds :
    (a # b /\ Stored(orders, a) /\ Stored(orders, b))
      => orders[a].invoiceNumber # orders[b].invoiceNumber

\* C5: a create order carrying the invoiceNumber of a stored order is
\* answered 400 and leaves every product and the orders as they were.
C5_DuplicateInvoiceRejected ==
  (/\ last.op = "createOrder"
   /\ HasInvoice(pre.orders, last.req.invoiceNumber))
  => (last.code = 400 /\ NothingChanged)

\* C5 witness: the rejected cart was in stock, so the invoice alone rejected it.
C5_Witness ==
  /\ last.op = "createOrder"
  /\ last.code = 400
  /\ HasInvoice(pre.orders, last.req.invoiceNumber)
  /\ last.req.cartItems # <<>>
  /\ \A i \in 1..Len(last.req.cartItems) : InStock(pre.products, last.req.cartItems[i])

\* C6: a create order with a new invoiceNumber whose items are all in stock
\* succeeds; each product's stock drops by the quantity ordered of it, the
\* others keep theirs, and the drops add up to the cart's total quantity.
C6_ValidOrderDecrements ==
  (/\ last.op = "createOrder"
   /\ ~HasInvoice(pre.orders, last.req.invoiceNumber)
   /\ \A i \in 1..Len(last.req.cartItems) : InStock(pre.products, last.req.cartItems[i]))
  => /\ last.code = 200
     /\ \A p \in AllProductIds :
          IF Stored(pre.products, p)
          THEN /\ Stored(products, p)
               /\ products[p].stock = pre.products[p].stock - QtyFor(last.req.cartItems, p)
          ELSE ~Stored(products, p)
     /\ LET was == {p \in AllProductIds : Stored(pre.products, p)}
            drop == [p \in was |-> pre.products[p].stock - products[p].stock]
        IN SumFn(drop, was) = TotalQty(last.req.cartItems)

\* C6 witness: an accepted cart of two products, the first at quantity 2.
C6_Witness ==
  /\ last.op = "createOrder"
  /\ last.code = 200
  /\ Len(last.req.cartItems) = 2
  /\ last.req.cartItems[1].productId # last.req.cartItems[2].productId
  /\ last.req.cartItems[1].quantity = 2
  /\ products # pre.products

\* C7: cancel of a pending order answers 200, adds every item's quantity
\* back to its product and leaves the order canceled; cancel of an order
\* that is canceled already answers 400 and changes nothing.
C7_CancelThenCancelAgain ==
  (last.op = "cancelOrder" /\ Stored(pre.orders, last.req.id))
  => LET was == pre.orders[last.req.id]
     IN /\ was.status = "pending" =>
             /\ last.code = 200
             /\ orders = [pre.orders EXCEPT ![last.req.id].status = "canceled"]
             /\ \A p \in AllProductIds :
                  IF Stored(pre.products, p)
                  THEN products[p].stock = pre.products[p].stock + QtyFor(was.cartItems, p)
                  ELSE ~Stored(products, p)
        /\ was.status = "canceled" => (last.code = 400 /\ NothingChanged)

\* C7 witness: the third request is the second cancel of an order that was
\* placed with items and canceled.
C7_Witness ==
  /\ last.op = "cancelOrder"
  /\ last.code = 400
  /\ Stored(pre.orders, last.req.id)
  /\ pre.orders[last.req.id].status = "canceled"
  /\ pre.orders[last.req.id].cartItems # <<>>
  /\ nreq = 3

\* C8: a request changes an order's status only along pending -> confirmed,
\* pending / confirmed -> canceled, pending / confirmed -> returned; a
\* canceled or returned order keeps its status.
AllowedTransitions ==
  { <<"pending", "confirmed">>, <<"pending", "canceled">>, <<"confirmed", "canceled">>,
    <<"pending", "returned">>, <<"confirmed", "returned">> }
C8_StatusTransitions ==
  \A id \in OrderIds :
    (Stored(pre.orders, id) /\ Stored(orders, id)
       /\ pre.orders[id].status # orders[id].status)
      => <<pre.orders[id].status, orders[id].status>> \in AllowedTransitions

\* Quantity of product p that the pending and confirmed orders hold.
Held(ords, p) ==
  LET of == [id \in OrderIds |->
               IF Stored(ords, id) /\ ords[id].status \in {"pending", "confirmed"}
               THEN QtyFor(ords[id].cartItems, p) ELSE 0]
  IN SumFn(of, OrderIds)

\* C9: stock plus what pending and confirmed orders hold is the same after
\* every request as before it (so it stays what it was with no order placed).
C9_StockConservation ==
  \A p \in ProductIds :
    products[p].stock + Held(orders, p) = pre.products[p].stock + Held(pre.orders, p)

MalformedId ==
  \/ /\ last.op \in {"updateOrder", "cancelOrder", "returnOrder", "confirmOrder", "deleteOrder"}
     /\ last.req.id = BadOrderId
  \/ /\ last.op \in {"getProduct", "updateProduct", "deleteProduct"}
     /\ last.req.id = BadProductId
  \/ /\ last.op = "createOrder"
     /\ \E i \in 1..Len(last.req.cartItems) : last.req.cartItems[i].productId = BadProductId

\* C11: a request carrying a malformed identifier is answered 400, and
\* leaves every product and every order as it was.
C11_MalformedIdRejected ==
  MalformedId => (last.code = 400 /\ NothingChanged)
\* C12: a confirm for an order that is stored and already confirmed is not
\* answered the way a confirm that matches no order is: it is not reported
\* as "Order not found".
C12_AlreadyConfirmedNotMissing ==
  (/\ last.op = "confirmOrder"
   /\ Stored(pre.orders, last.req.id)
   /\ pre.orders[last.req.id].status = "confirmed")
  => last.message # "Order not found"
\* C13: every request that arrived is answered in the end, and a request
\* has received no response while it is handled and exactly one once it is
\* done, whichever path it took: validation rejection, exception, rejected
\* database operation or success.
C13_AnsweredExactlyOnce ==
  \A r \in ServeProcs :
    /\ [](procs[r].pc = "done" => procs[r].sent = 1)
    /\ [](procs[r].pc \notin {"idle", "done"} => procs[r].sent = 0)
    /\ (procs[r].pc # "idle") ~> (procs[r].pc = "done")

\* C13 witness: a create order answered 500 after its order was inserted
\* (a decrement was rejected).
C13_Witness ==
  /\ procs["r1"].pc = "done"
  /\ procs["r1"].op = "createOrder"
  /\ procs["r1"].code = 500
  /\ procs["r1"].sent = 1
  /\ orders # pre.orders
\* C14: delete order takes the order away and nothing else: every product
\* is as it was, whatever the order's status and cartItems, and so is every
\* other order.
C14_DeleteOrderOnly ==
  last.op = "deleteOrder"
  => /\ products = pre.products
     /\ ~Stored(orders, last.req.id)
     /\ \A id \in OrderIds : id # last.req.id => orders[id] = pre.orders[id]
     /\ last.code = (IF Stored(pre.orders, last.req.id) THEN 200 ELSE 404)

\* C14 witness: a pending order holding items is deleted while another
\* order is stored.
C14_Witness ==
  /\ last.op = "deleteOrder"
  /\ last.code = 200
  /\ pre.orders[last.req.id].cartItems # <<>>
  /\ pre.orders[last.req.id].status = "pending"
  /\ \E id \in OrderIds : id # last.req.id /\ Stored(orders, id)
\* What the product claims speak of.  A payload field is a number; it is
\* text or the empty string; no number can be made of it.
IsNumber(x) == x.t = "number"
NotNumeric(x) == x.t \in {"text", "empty"}
CoercionFails(x) == x.t \in {"text", "missing"}
\* The discount a payload asks for: a discount left out is none.
DiscountOf(body) == IF body.discount.t = "missing" THEN 0 ELSE body.discount.v
\* price and discount of the payload are numbers, the discount a percentage.
Priced(body) ==
  /\ IsNumber(body.price) /\ body.price.v >= 0
  /\ body.discount.t \in {"number", "missing"}
  /\ DiscountOf(body) \in 0..100
\* f is price - price * discount / 100 rounded to two decimals: a whole
\* number of hundredths, at most half a hundredth away (in ten-thousandths,
\* times 100 to stay in whole numbers).
RoundedPrice(f, body) ==
  LET exact100 == body.price.v * 100 - body.price.v * DiscountOf(body)
  IN /\ f % 100 = 0
     /\ f * 100 - exact100 <= 5000
     /\ exact100 - f * 100 <= 5000

\* C15: create product with img, name and a numeric price and discount
\* stores finalPrice = price - price * discount / 100 rounded to two
\* decimals, not below 0, whatever finalPrice the payload carries.
C15_CreateFinalPrice ==
  (/\ last.op = "createProduct"
   /\ last.req.body.img /\ last.req.body.name
   /\ Priced(last.req.body))
  => /\ last.code = 201
     /\ Stored(products, last.req.id)
     /\ "finalPrice" \notin products[last.req.id].nan
     /\ products[last.req.id].finalPrice >= 0
     /\ RoundedPrice(products[last.req.id].finalPrice, last.req.body)

\* C15 witness: price 100, discount 10 and a finalPrice of 1.00 in the
\* payload; 90.00 is stored.
C15_Witness ==
  /\ last.op = "createProduct"
  /\ last.code = 201
  /\ last.req.body.price = Num(1000000)
  /\ last.req.body.discount = Num(10)
  /\ last.req.body.finalPrice = Num(10000)
  /\ products[last.req.id].finalPrice = 900000

\* C16: an update product that succeeds, its price and discount numbers,
\* leaves the product under its identifier and every other product as it
\* was, whatever _id and finalPrice the payload carries, and stores and
\* returns finalPrice = price * (1 - discount / 100) rounded to two decimals.
C16_UpdateFinalPrice ==
  (/\ last.op = "updateProduct"
   /\ last.code = 200
   /\ Priced(last.req.body)
   /\ IsNumber(last.req.body.discount))
  => /\ Stored(products, last.req.id)
     /\ \A p \in AllProductIds : p # last.req.id => products[p] = pre.products[p]
     /\ "finalPrice" \notin products[last.req.id].nan
     /\ RoundedPrice(products[last.req.id].finalPrice, last.req.body)
     /\ last.finalPrice = [nan |-> FALSE, v |-> products[last.req.id].finalPrice]

\* C17: a create product whose stock, price or discount is text or the
\* empty string is answered 400 and inserts nothing.
C17_CreateRejectsNonNumeric ==
  (/\ last.op = "createProduct"
   /\ \/ NotNumeric(last.req.body.stock)
      \/ NotNumeric(last.req.body.price)
      \/ NotNumeric(last.req.body.discount))
  => (last.code = 400 /\ NothingChanged)

\* C18: an update of a stored product in which no number can be made of
\* stock, price or discount (the field is text or left out) is answered 400
\* and leaves the product as it was; no stored product holds NaN.
C18_UpdateRejectsNonNumeric ==
  /\ (/\ last.op = "updateProduct"
      /\ last.req.id \in AllProductIds
      /\ Stored(pre.products, last.req.id)
      /\ \/ CoercionFails(last.req.body.stock)
         \/ CoercionFails(last.req.body.price)
         \/ CoercionFails(last.req.body.discount))
     => (last.code = 400 /\ NothingChanged)
  /\ last.op = "updateProduct" =>
       \A p \in AllProductIds : Stored(products, p) => products[p].nan = {}
\* C19: delete product of a stored product answers 200 and removes it;
\* of a product that is not stored answers 404 and changes nothing; either
\* way every order, those holding the product included, is as it was.
C19_DeleteProduct ==
  last.op = "deleteProduct"
  => /\ orders = pre.orders
     /\ IF Stored(pre.products, last.req.id)
        THEN /\ last.code = 200
             /\ products = [pre.products EXCEPT ![last.req.id] = NoDoc]
        ELSE /\ last.code = 404
             /\ products = pre.products

\* C19 witness: the product of a stored order's cart is deleted a second
\* time, after the delete that removed it.
C19_Witness ==
  /\ last.op = "deleteProduct"
  /\ last.code = 404
  /\ last.req.id \in ProductIds
  /\ nreq = 3
  /\ \E o \in OrderIds :
       /\ Stored(orders, o)
       /\ \E i \in 1..Len(orders[o].cartItems) : orders[o].cartItems[i].productId = last.req.id
\* C20: when two concurrent create order requests for the same product have
\* both been accepted, the product's stock is its stock before the two
\* arrived (pre is not written while requests interleave) minus the
\* quantity of the one and the quantity of the other.
C20_BothDecrementsApplied ==
  \A p \in ProductIds :
    (/\ \A r \in Procs : procs[r].pc = "done" /\ procs[r].code = 200
     /\ \A r \in Procs : QtyFor(procs[r].cartItems, p) > 0)
    => products[p].stock
         = pre.products[p].stock - QtyFor(procs["r1"].cartItems, p)
                                 - QtyFor(procs["r2"].cartItems, p)

\* C20 witness: both requests were accepted although the product had stock
\* for one of them only, so both passed the stock check before either
\* decremented.
C20_Witness ==
  /\ \A r \in Procs : procs[r].pc = "done" /\ procs[r].code = 200
  /\ QtyFor(procs["r1"].cartItems, "A") = 2
  /\ QtyFor(procs["r2"].cartItems, "A") = 1
  /\ pre.products["A"].stock = 2
  /\ products["A"].stock = 0 - 1
\* ---------------------------------------------------------------- C21
\* The rearrangements of a list: the same items in every order.
Orderings(s) ==
  { [i \in 1..Len(s) |-> s[f[i]]] :
      f \in { g \in [1..Len(s) -> 1..Len(s)] :
                \A i, j \in 1..Len(s) : g[i] = g[j] => i = j } }

\* C21: update order matches items by identifier, not by position: the stock
\* an update leaves is the stock the same update leaves when its cartItems
\* and its originalItems are sent in any other order.
C21_OrderOfItemsIrrelevant ==
  last.op = "updateOrder" =>
    \A cart \in Orderings(last.req.cartItems), orig \in Orderings(last.req.originalItems) :
      \A p \in ProductIds :
        Reconcile(pre.products, orig, cart).products[p].stock = products[p].stock
\* ---------------------------------------------------------------- C22
\* C22: cancel and return requests, one at a time, add an order's quantities
\* back to stock at most once in its lifetime: a canceled or returned order
\* has had them added back, so a later cancel or return adds nothing.
C22_RestoredAtMostOnce ==
  (/\ last.op \in {"cancelOrder", "returnOrder"}
   /\ Stored(pre.orders, last.req.id)
   /\ pre.orders[last.req.id].status \in {"canceled", "returned"})
  => \A p \in ProductIds : products[p].stock = pre.products[p].stock
\* ---------------------------------------------------------------- C23
\* C23: two concurrent cancel requests for the same pending order restore its
\* quantities exactly once: when both are answered, each product's stock is
\* what it was plus what the order held of it.
C23_ConcurrentCancelRestoresOnce ==
  \A id \in OrderIds :
    (/\ Stored(pre.orders, id)
     /\ pre.orders[id].status = "pending"
     /\ \A r \in Procs : procs[r].pc = "done" /\ procs[r].id = id)
    => \A p \in ProductIds :
         products[p].stock = pre.products[p].stock + QtyFor(pre.orders[id].cartItems, p)
\* ---------------------------------------------------------------- C24
\* C24: a create order whose cart lists a product in more than one item, with
\* quantities that together exceed the product's stock, is rejected: nothing
\* is stored and no stock changes, also when each item alone is in stock.
C24_SummedQuantityRejected ==
  (/\ last.op = "createOrder"
   /\ \E p \in ProductIds :
        /\ Stored(pre.products, p)
        /\ Cardinality({ i \in 1..Len(last.req.cartItems) :
                           last.req.cartItems[i].productId = p }) > 1
        /\ QtyFor(last.req.cartItems, p) > pre.products[p].stock)
  => (last.code # 200 /\ NothingChanged)
\* ---------------------------------------------------------------- C25
\* C25: an order placed, updated any number of times (originalItems equal to
\* the cartItems held) and then canceled, with no other request in between,
\* leaves every product's stock at its value before the order was placed
\* (MaxEditQty in SpecRound).
C25_PlaceUpdateCancelRoundTrip ==
  (last.op = "cancelOrder" /\ last.code = 200)
  => \A p \in ProductIds : products[p].stock = MaxEditQty
\* ---------------------------------------------------------------- C26
\* C26: a create order, cancel order or update order request answered with
\* status 500 leaves the collections as they were before the request: no
\* order inserted or modified, no product's stock changed.  (Stated for
\* requests whose order id is well formed, so that the failure is one of a
\* storage operation and not the malformed id of C11.)
C26_FailureLeavesStateUnchanged ==
  \A r \in ServeProcs :
    (/\ procs[r].pc = "done"
     /\ procs[r].code = 500
     /\ \/ procs[r].op = "createOrder"
        \/ procs[r].op = "updateOrder" /\ procs[r].id \in OrderIds
        \/ /\ procs[r].op = "closeOrder"
           /\ procs[r].target = "canceled"
           /\ procs[r].id \in OrderIds)
    => NothingChanged
\* ---------------------------------------------------------------- C27
\* C27: an update order whose id matches no stored order changes no product's
\* stock and is not answered as a successful update.
C27_UnknownOrderNotUpdated ==
  (/\ last.op = "updateOrder"
   /\ last.req.id \in OrderIds
   /\ ~Stored(pre.orders, last.req.id))
  => /\ last.code # 200
     /\ \A p \in ProductIds : products[p].stock = pre.products[p].stock
====
